---- MODULE Spec2Model ----
(***************************************************************************)
(* Resume ingestion and deletion of CV-Optima.                             *)
(*                                                                         *)
(* parseResume and deleteResume (app/actions/parse-resume.ts) are server   *)
(* actions: every await on a collaborator (identity provider, blob store,  *)
(* datastore) is a point where other requests interleave, so each await is *)
(* one action of the model and the synchronous code up to the next await   *)
(* belongs to the action of the await before it.  A collaborator call      *)
(* returns its result, returns an error, or throws; all three are          *)
(* outcomes the actions choose among.                                      *)
(*                                                                         *)
(* Text (file names, extracted text) is a sequence of one-character        *)
(* strings.                                                                *)
(***************************************************************************)
EXTENDS Integers, Sequences, FiniteSets, TLC

\* ------------------------------------------------------------------ bounds
\* concurrent parseResume requests
NumRuns == 2
\* concurrent deleteResume requests
NumDeleters == 1
\* distinct values of new Date() the uploads can observe
MaxTime == 1
\* longest text a parsing library returns to an extractor call
MaxTextLen == 3
\* longest text given to the normaliser
MaxLen == 6
\* longest buffer given to the magic-number checks
MaxBufferLen == 5
\* longest text a parsing library returns to an upload
LongTextLen == 502
\* concurrent deduct_credits calls
NumCallers == 2
\* largest balance a profile starts with
MaxCredits == 2
\* largest amount a call deducts
MaxAmount == 2

Runs == 1..NumRuns
Deleters == 1..NumDeleters
Timestamps == 1..MaxTime
Callers == 1..NumCallers
Amounts == 1..MaxAmount

Users == {"userA", "userB"}
\* the value of user / resume / filePath when there is none
None == "none"
\* a message is a sequence of string fragments; the absent message is empty
NoError == <<>>
Msg(m) == <<m>>

\* ------------------------------------------------------------ text helpers
\* String.prototype.endsWith
EndsWith(s, suffix) ==
    IF Len(suffix) = 0 THEN TRUE
    ELSE IF Len(s) < Len(suffix) THEN FALSE
    ELSE SubSeq(s, Len(s) - Len(suffix) + 1, Len(s)) = suffix

LowerLetters ==
    <<"a", "b", "c", "d", "e", "f", "g", "h", "i", "j", "k", "l", "m",
      "n", "o", "p", "q", "r", "s", "t", "u", "v", "w", "x", "y", "z">>
UpperLetters ==
    <<"A", "B", "C", "D", "E", "F", "G", "H", "I", "J", "K", "L", "M",
      "N", "O", "P", "Q", "R", "S", "T", "U", "V", "W", "X", "Y", "Z">>

UpperToLower ==
    [c \in {UpperLetters[i] : i \in 1..26} |->
        LowerLetters[CHOOSE i \in 1..26 : UpperLetters[i] = c]]
LowerToUpper ==
    [c \in {LowerLetters[i] : i \in 1..26} |->
        UpperLetters[CHOOSE i \in 1..26 : LowerLetters[i] = c]]

\* String.prototype.toLowerCase, on the ASCII letters
ToLowerCase(s) ==
    [i \in 1..Len(s) |-> IF s[i] \in DOMAIN UpperToLower THEN UpperToLower[s[i]] ELSE s[i]]

\* String.prototype.toUpperCase, on the ASCII letters
ToUpperCase(s) ==
    [i \in 1..Len(s) |-> IF s[i] \in DOMAIN LowerToUpper THEN LowerToUpper[s[i]] ELSE s[i]]

\* ---------------------------------------------------------- file validation
MAX_FILE_SIZE == 10 * 1024 * 1024

PDF_MIME == "application/pdf"
DOCX_MIME == "application/vnd.openxmlformats-officedocument.wordprocessingml.document"

\* Object.keys(ALLOWED_FILE_TYPES)
ALLOWED_FILE_TYPES == {PDF_MIME, DOCX_MIME}

ALLOWED_EXTENSIONS == {<<".", "p", "d", "f">>, <<".", "d", "o", "c", "x">>}

Valid == [valid |-> TRUE, error |-> NoError]
Invalid(msg) == [valid |-> FALSE, error |-> msg]

validateFileType(file) ==
    IF file.type \notin ALLOWED_FILE_TYPES
    THEN Invalid(Msg("Invalid file type. Only PDF and DOCX files are allowed."))
    ELSE IF ~ \E ext \in ALLOWED_EXTENSIONS : EndsWith(ToLowerCase(file.name), ext)
    THEN Invalid(Msg("Invalid file extension. Only .pdf and .docx files are allowed."))
    ELSE Valid

\* Number.prototype.toFixed(2) of size / (1024 * 1024), in hundredths
SizeMBHundredths(size) ==
    (size \div (1024 * 1024)) * 100
        + ((size % (1024 * 1024)) * 100 + 512 * 1024) \div (1024 * 1024)

\* (variant: >= instead of >)
validateFileSize_inclusive(file) ==
    IF file.size >= MAX_FILE_SIZE
    THEN Invalid(<<"File size (", ToString(SizeMBHundredths(file.size)),
                   "/100 MB) exceeds the maximum allowed size of ",
                   ToString(MAX_FILE_SIZE \div (1024 * 1024)), "MB.">>)
    ELSE Valid

validateFileSize(file) ==
    IF file.size > MAX_FILE_SIZE
    THEN Invalid(<<"File size (", ToString(SizeMBHundredths(file.size)),
                   "/100 MB) exceeds the maximum allowed size of ",
                   ToString(MAX_FILE_SIZE \div (1024 * 1024)), "MB.">>)
    ELSE Valid

validateFileNotEmpty(file) ==
    IF file.size = 0
    THEN Invalid(Msg("File is empty. Please upload a valid resume file."))
    ELSE Valid

\* (variant: the type is checked before the emptiness)
validateResumeFile_typeFirst(file) ==
    IF ~ validateFileType(file).valid THEN validateFileType(file)
    ELSE IF ~ validateFileNotEmpty(file).valid THEN validateFileNotEmpty(file)
    ELSE IF ~ validateFileSize(file).valid THEN validateFileSize(file)
    ELSE Valid

validateResumeFile(file) ==
    IF ~ validateFileNotEmpty(file).valid THEN validateFileNotEmpty(file)
    ELSE IF ~ validateFileType(file).valid THEN validateFileType(file)
    ELSE IF ~ validateFileSize(file).valid THEN validateFileSize(file)
    ELSE Valid

\* ------------------------------------------------------------------ inputs
NamePdf == <<"c", "v", ".", "p", "d", "f">>
NameDocx == <<"c", "v", ".", "d", "o", "c", "x">>
NameTxt == <<"c", "v", ".", "t", "x", "t">>

\* the files a request can carry; formData.get('file') may also be absent
Files ==
    { [name |-> NamePdf, type |-> PDF_MIME, size |-> 1],
      [name |-> NameDocx, type |-> DOCX_MIME, size |-> 1],
      [name |-> NamePdf, type |-> PDF_MIME, size |-> 0],
      [name |-> NamePdf, type |-> PDF_MIME, size |-> MAX_FILE_SIZE + 1],
      [name |-> NameTxt, type |-> "text/plain", size |-> 1] }

\* what the start of a request can throw, where createClient goes through the
\* framework's request API: an Error with a message, the control-flow signal
\* of the framework's redirect() (an Error whose digest names NEXT_REDIRECT),
\* or a value that is no Error
Thrown ==
    { [isError |-> TRUE, message |-> Msg("fetch failed"), digest |-> ""],
      [isError |-> TRUE, message |-> Msg("NEXT_REDIRECT"), digest |-> "NEXT_REDIRECT"],
      [isError |-> FALSE, message |-> Msg("timeout"), digest |-> ""] }
\* what a call of the blob store, the datastore or the identity provider throws
CallThrown == { [isError |-> TRUE, message |-> Msg("fetch failed"), digest |-> ""] }
\* what file.arrayBuffer() throws
FileThrown == { [isError |-> TRUE, message |-> Msg("The file could not be read"), digest |-> ""] }
\* nothing was thrown
NoThrown == [isError |-> FALSE, message |-> NoError, digest |-> ""]

\* ---------------------------------------------------------- text normaliser
\* the characters String.prototype.trim removes
IsWhitespace(c) == c \in {" ", "\t", "\n", "\r"}

RECURSIVE Trim(_)
\* String.prototype.trim
Trim(s) ==
    IF Len(s) = 0 THEN s
    ELSE IF IsWhitespace(s[1]) THEN Trim(Tail(s))
    ELSE IF IsWhitespace(s[Len(s)]) THEN Trim(SubSeq(s, 1, Len(s) - 1))
    ELSE s

\* the positions of s, in order
Positions(s) == [i \in 1..Len(s) |-> i]

\* the characters of s at the positions `kept`
CharsAt(s, kept) == [j \in 1..Len(kept) |-> s[kept[j]]]

\* .replace(/ {2,}/g, ' '): of every run of spaces only the first is kept
CollapseSpaces(s) ==
    LET dropped(i) == s[i] = " " /\ i > 1 /\ s[i - 1] = " "
    IN  CharsAt(s, SelectSeq(Positions(s), LAMBDA i : ~ dropped(i)))

\* .replace(/\n{3,}/g, '\n\n'): of every run of newlines only the first two are kept
CollapseNewlines(s) ==
    LET dropped(i) == s[i] = "\n" /\ i > 2 /\ s[i - 1] = "\n" /\ s[i - 2] = "\n"
    IN  CharsAt(s, SelectSeq(Positions(s), LAMBDA i : ~ dropped(i)))

\* .replace(/\t/g, ' ')
TabsToSpaces(s) == [i \in 1..Len(s) |-> IF s[i] = "\t" THEN " " ELSE s[i]]

\* .split('\n'): the pieces between the newlines of s
SplitLines(s) ==
    LET breaks == SelectSeq(Positions(s), LAMBDA i : s[i] = "\n")
    IN  [k \in 1..(Len(breaks) + 1) |->
            SubSeq(s, IF k = 1 THEN 1 ELSE breaks[k - 1] + 1,
                      IF k = Len(breaks) + 1 THEN Len(s) ELSE breaks[k] - 1)]

\* .join('\n')
JoinLines(lines) ==
    LET F[i \in 0..Len(lines)] ==
            IF i = 0 THEN <<>>
            ELSE IF i = 1 THEN lines[1]
            ELSE F[i - 1] \o <<"\n">> \o lines[i]
    IN  F[Len(lines)]

TrimLines(lines) == [i \in 1..Len(lines) |-> Trim(lines[i])]

\* cleanText of the PDF parser
cleanTextPDF(text) ==
    Trim(JoinLines(TrimLines(SplitLines(CollapseNewlines(CollapseSpaces(text))))))

\* cleanText of the DOCX parser
cleanTextDOCX(text) ==
    Trim(JoinLines(SelectSeq(
        TrimLines(SplitLines(TabsToSpaces(CollapseNewlines(CollapseSpaces(text))))),
        LAMBDA line : Len(line) > 0)))

\* ------------------------------------------------------------- extractors
\* an extractor's result: {success, text?, error?}
Extracted(text) == [success |-> TRUE, text |-> text, error |-> NoError]
NotExtracted(msg) == [success |-> FALSE, text |-> <<>>, error |-> msg]

\* String.prototype.includes, on a message of fragments
Includes(message, fragment) == \E i \in 1..Len(message) : message[i] = fragment

\* What the parsing library does with a buffer is the library's business: it
\* yields a text (with diagnostics, for mammoth) or throws.
\*   [kind |-> "text", text, errors]   getText / extractRawText returned
\*   [kind |-> "throw", thrown]        a library call threw
\* (variant: the text is not validated before it is cleaned)
extractTextFromPDF_unvalidated(length, lib) ==
    IF length = 0 THEN NotExtracted(Msg("PDF buffer is empty"))
    ELSE IF lib.kind = "throw" THEN NotExtracted(<<"PDF parsing failed: ">> \o lib.thrown.message)
    ELSE Extracted(cleanTextPDF(lib.text))

extractTextFromPDF(length, lib) ==
    IF length = 0 THEN NotExtracted(Msg("PDF buffer is empty"))
    ELSE IF lib.kind = "throw" THEN
        IF lib.thrown.isError THEN
            IF Includes(lib.thrown.message, "Invalid PDF")
            THEN NotExtracted(Msg("Invalid PDF file. The file may be corrupted or not a valid PDF."))
            ELSE IF Includes(lib.thrown.message, "password")
            THEN NotExtracted(Msg("PDF is password-protected. Please upload an unprotected file."))
            ELSE NotExtracted(<<"PDF parsing failed: ">> \o lib.thrown.message)
        ELSE NotExtracted(Msg("An unknown error occurred while parsing the PDF."))
    ELSE IF Len(Trim(lib.text)) = 0
    THEN NotExtracted(Msg("No text content found in PDF. The file might be image-based or corrupted."))
    ELSE Extracted(cleanTextPDF(lib.text))

extractTextFromDOCX(length, lib) ==
    IF length = 0 THEN NotExtracted(Msg("DOCX buffer is empty"))
    ELSE IF lib.kind = "throw" THEN
        IF lib.thrown.isError THEN
            IF Includes(lib.thrown.message, "not a valid")
            THEN NotExtracted(Msg("Invalid DOCX file. The file may be corrupted or not a valid DOCX format."))
            ELSE IF Includes(lib.thrown.message, "zip")
            THEN NotExtracted(Msg("DOCX file structure is invalid. The file may be corrupted."))
            ELSE NotExtracted(<<"DOCX parsing failed: ">> \o lib.thrown.message)
        ELSE NotExtracted(Msg("An unknown error occurred while parsing the DOCX file."))
    ELSE IF Len(lib.errors) > 0
    THEN NotExtracted(<<"DOCX parsing errors: ">> \o lib.errors)
    ELSE IF Len(Trim(lib.text)) = 0
    THEN NotExtracted(Msg("No text content found in DOCX. The file might be empty or corrupted."))
    ELSE Extracted(cleanTextDOCX(lib.text))

\* lines 204-226: the extractor extractTextFromFile hands the buffer to, chosen
\* on the declared type or the extension
Dispatch(file) ==
    IF file.type = PDF_MIME \/ EndsWith(ToLowerCase(file.name), <<".", "p", "d", "f">>)
    THEN "pdf"
    ELSE IF file.type = DOCX_MIME \/ EndsWith(ToLowerCase(file.name), <<".", "d", "o", "c", "x">>)
    THEN "docx"
    ELSE "none"

extractTextFromFile(file, lib) ==
    CASE Dispatch(file) = "pdf" -> extractTextFromPDF(file.size, lib)
      [] Dispatch(file) = "docx" -> extractTextFromDOCX(file.size, lib)
      [] OTHER -> NotExtracted(Msg("Unsupported file type"))

\* the library behaviours the requests meet
LibOutcomes ==
    { [kind |-> "text", text |-> <<"H", "i", " ", " ", "\n">>, errors |-> <<>>,
       thrown |-> NoThrown],
      [kind |-> "text", text |-> <<" ", "\n">>, errors |-> <<>>,
       thrown |-> NoThrown],
      [kind |-> "throw", text |-> <<>>, errors |-> <<>>,
       thrown |-> [isError |-> TRUE, message |-> Msg("bad XRef entry"), digest |-> ""]] }

\* the error objects the datastore answers a failed insert with
DbErrors == { Msg("duplicate key value"), Msg("connection refused") }

\* --------------------------------------------------------------- the title
\* .replace(/\.(pdf|docx)$/i, '')
StripExtension(filename) ==
    IF EndsWith(ToLowerCase(filename), <<".", "p", "d", "f">>)
    THEN SubSeq(filename, 1, Len(filename) - 4)
    ELSE IF EndsWith(ToLowerCase(filename), <<".", "d", "o", "c", "x">>)
    THEN SubSeq(filename, 1, Len(filename) - 5)
    ELSE filename

\* .replace(/[_-]/g, ' ')
SeparatorsToSpaces(s) == [i \in 1..Len(s) |-> IF s[i] \in {"_", "-"} THEN " " ELSE s[i]]

\* .split(' ')
SplitWords(s) ==
    LET F[i \in 0..Len(s)] ==
            IF i = 0 THEN << <<>> >>
            ELSE LET words == F[i - 1] IN
                 IF s[i] = " " THEN Append(words, <<>>)
                 ELSE [words EXCEPT ![Len(words)] = Append(@, s[i])]
    IN  F[Len(s)]

\* .join(' ')
JoinWords(words) ==
    LET F[i \in 0..Len(words)] ==
            IF i = 0 THEN <<>>
            ELSE IF i = 1 THEN words[1]
            ELSE F[i - 1] \o <<" ">> \o words[i]
    IN  F[Len(words)]

\* word.charAt(0).toUpperCase() + word.slice(1).toLowerCase()
Capitalize(word) ==
    IF Len(word) = 0 THEN word
    ELSE ToUpperCase(SubSeq(word, 1, 1)) \o ToLowerCase(SubSeq(word, 2, Len(word)))

UntitledResume ==
    <<"U", "n", "t", "i", "t", "l", "e", "d", " ", "R", "e", "s", "u", "m", "e">>

\* (variant: without the fallback of line 252)
generateResumeTitle_noFallback(filename) ==
    LET words == SplitWords(SeparatorsToSpaces(StripExtension(filename)))
    IN  JoinWords([i \in 1..Len(words) |-> Capitalize(words[i])])

generateResumeTitle(filename) ==
    LET words == SplitWords(SeparatorsToSpaces(StripExtension(filename)))
        title == JoinWords([i \in 1..Len(words) |-> Capitalize(words[i])])
    IN  IF Len(title) = 0 THEN UntitledResume ELSE title

\* ------------------------------------------------------------------- state
VARIABLES
    storage,    \* the 'resumes' bucket: the objects stored, each with the run that put it
    resumes,    \* the resumes table: the records, each with the run that inserted it
    pr,         \* per parseResume request: its position, inputs, locals and result
    dr,         \* per deleteResume request: its position, inputs, locals and result
    ex,         \* a call of extractTextFromPDF / extractTextFromDOCX: position, locals, result
    ap,         \* an application of a pure function: the function, its input, its output
    cl,         \* a call of cleanupOrphanedFiles: its position, caller and result
    profiles,   \* the profiles table: the credits of each user
    dc          \* per deduct_credits call: its position, inputs, locals and result

vars == <<storage, resumes, pr, dr, ex, ap, cl, profiles, dc>>

NoFile == [name |-> <<>>, type |-> "", size |-> 0]
\* formData.get('title') is absent or empty: `... || undefined`
NoTitle == <<>>
NoPath == <<>>
NoUrl == [bucket |-> "", path |-> NoPath]
NoData == [resumeId |-> 0, title |-> NoTitle, fileUrl |-> NoUrl]
NoResume == [id |-> 0, user_id |-> None, file_url |-> NoUrl, file_type |-> "", by |-> 0]

\* the result value of either action
Success(data) == [success |-> TRUE, error |-> NoError, data |-> data]
Failure(msg) == [success |-> FALSE, error |-> msg, data |-> NoData]

\* error instanceof Error ? error.message : fallback
Caught(thrown, fallback) == IF thrown.isError THEN thrown.message ELSE Msg(fallback)

\* one step of a request, as its trace records it: the operation, and whether
\* it went through ("ok"), answered with an error ("error") or threw ("throw")
Step(op, out) == [op |-> op, out |-> out]

StoredNames == {o.name : o \in storage}

SafeChars ==
    { "a", "b", "c", "d", "e", "f", "g", "h", "i", "j", "k", "l", "m", "n", "o", "p", "q",
      "r", "s", "t", "u", "v", "w", "x", "y", "z", "A", "B", "C", "D", "E", "F", "G", "H",
      "I", "J", "K", "L", "M", "N", "O", "P", "Q", "R", "S", "T", "U", "V", "W", "X", "Y",
      "Z", "0", "1", "2", "3", "4", "5", "6", "7", "8", "9", ".", "_", "-" }

\* (variant: the name is taken as it is)
SafeFilename_unsanitized(name) == name

\* file.name.replace(/[^a-zA-Z0-9._-]/g, '_')
SafeFilename(name) == [i \in 1..Len(name) |-> IF name[i] \in SafeChars THEN name[i] ELSE "_"]

\* `${userId}/${timestamp}_${safeFilename}`; the timestamp is the instant
\* new Date() returned, which its ISO rendering names one to one
FilePath(userId, timestamp, name) == <<userId, timestamp, SafeFilename(name)>>

\* storage.from('resumes').getPublicUrl(filePath)
getPublicUrl(filePath) == [bucket |-> "resumes", path |-> filePath]

\* url.split('/resumes/'): a path is `<uuid>/<timestamp>_<safe name>` and holds
\* no '/resumes/', so the split has two parts exactly when the bucket is 'resumes'
extractFilePathFromUrl(url, userId) == IF url.bucket = "resumes" THEN url.path ELSE NoPath

\* storage.from('resumes').remove([path]), when the store carries it out
Removed(path) == {o \in storage : o.name # path}

\* no extractor call is under way
NoExtractor ==
    [pc |-> "idle", format |-> "", buffer |-> <<>>, text |-> <<>>, errors |-> <<>>,
     parser |-> "none", caught |-> NoThrown, result |-> NotExtracted(NoError)]

\* no function has been applied
NoApplication == [fn |-> "", input |-> <<>>, output |-> <<>>]

\* profiles.credits INTEGER DEFAULT 5
DefaultCredits == 5

\* what cleanupOrphanedFiles returns: {success, error, data: {deletedCount}}
Cleaned(deletedCount) == [success |-> TRUE, error |-> NoError, deletedCount |-> deletedCount]
NotCleaned(msg) == [success |-> FALSE, error |-> msg, deletedCount |-> 0]

\* the stores are empty and no request has started
InitRequests ==
    /\ storage = {}
    /\ resumes = {}
    /\ pr = [r \in Runs |->
                [pc |-> "call", file |-> NoFile, title |-> NoTitle, caller |-> None,
                 user |-> None, filePath |-> NoPath, fileUrl |-> NoUrl,
                 extractor |-> "none", extraction |-> NotExtracted(NoError),
                 caught |-> NoThrown, dbError |-> NoError,
                 result |-> Failure(NoError), trace |-> <<>>]]
    /\ dr = [d \in Deleters |->
                [pc |-> "call", resumeId |-> 0, caller |-> None, owner |-> None,
                 resume |-> NoResume, filePath |-> NoPath, caught |-> NoThrown,
                 result |-> Failure(NoError), trace |-> <<>>]]
    /\ cl = [pc |-> "call", caller |-> None, deleted |-> {}, result |-> NotCleaned(NoError)]
    /\ dc = [c \in Callers |->
                [pc |-> "call", caller |-> None, amount |-> 0, current_credits |-> 0,
                 result |-> "none"]]

Init ==
    /\ InitRequests
    /\ ex = NoExtractor
    /\ ap = NoApplication
    /\ profiles = [u \in Users |-> DefaultCredits]

\* ------------------------------------------------------------- parseResume
\* the request returns `result`
Return(r, result, step) ==
    pr' = [pr EXCEPT ![r].pc = "done", ![r].result = result, ![r].trace = Append(@, step)]

\* a catch block took `thrown` at the step `op` and the request returns the
\* failure made of it
ReturnCaught(r, thrown, fallback, op) ==
    pr' = [pr EXCEPT ![r].pc = "done", ![r].caught = thrown,
                     ![r].result = Failure(Caught(thrown, fallback)),
                     ![r].trace = Append(@, Step(op, "throw"))]

\* (variant: the verdict of validateResumeFile is not looked at)
parseResume_validate_unchecked(r) ==
    /\ pr[r].pc = "call"
    /\ \E file \in Files \cup {NoFile} :
        IF file = NoFile
        THEN pr' = [pr EXCEPT ![r].pc = "done",
                              ![r].result = Failure(Msg("No file provided"))]
        ELSE pr' = [pr EXCEPT ![r].pc = "getUser", ![r].file = file,
                              ![r].trace = Append(@, Step("validate",
                                    IF validateResumeFile(file).valid THEN "ok" ELSE "error"))]
    /\ UNCHANGED <<storage, resumes, dr, ex, ap, cl, profiles, dc>>

\* lines 31-49: read the form data (one of `files` or none, one of `titles`)
\* and validate the file, before any await
parseResume_validateForm(r, files, titles) ==
    /\ pr[r].pc = "call"
    /\ \E file \in files \cup {NoFile}, title \in titles :
        IF file = NoFile
        THEN pr' = [pr EXCEPT ![r].pc = "done",
                              ![r].result = Failure(Msg("No file provided"))]
        ELSE IF ~ validateResumeFile(file).valid
        THEN pr' = [pr EXCEPT ![r].pc = "done", ![r].file = file, ![r].title = title,
                              ![r].result = Failure(validateResumeFile(file).error),
                              ![r].trace = Append(@, Step("validate", "error"))]
        ELSE pr' = [pr EXCEPT ![r].pc = "getUser", ![r].file = file, ![r].title = title,
                              ![r].trace = Append(@, Step("validate", "ok"))]
    /\ UNCHANGED <<storage, resumes, dr, ex, ap, cl, profiles, dc>>

\* a request whose form carries one of Files and no title
parseResume_validate(r) == parseResume_validateForm(r, Files, {NoTitle})

\* (variant: only `!user` is tested, the provider's error is not)
parseResume_getUser_ignoresAuthError(r) ==
    /\ pr[r].pc = "getUser"
    /\ \E caller \in Users \cup {None} :
        \/ \E thrown \in Thrown :
            pr' = [pr EXCEPT ![r].pc = "done", ![r].caller = caller, ![r].caught = thrown,
                             ![r].result = Failure(Caught(thrown, "An unexpected error occurred")),
                             ![r].trace = Append(@, Step("getUser", "throw"))]
        \/ \E authError \in BOOLEAN :
            /\ authError \/ caller = None
            /\ IF caller = None
               THEN pr' = [pr EXCEPT ![r].pc = "done", ![r].caller = caller,
                                     ![r].result = Failure(Msg("You must be logged in to upload a resume")),
                                     ![r].trace = Append(@, Step("getUser", "error"))]
               ELSE pr' = [pr EXCEPT ![r].pc = "upload", ![r].caller = caller, ![r].user = caller,
                                     ![r].trace = Append(@, Step("getUser", "error"))]
        \/ /\ caller # None
           /\ pr' = [pr EXCEPT ![r].pc = "upload", ![r].caller = caller, ![r].user = caller,
                               ![r].trace = Append(@, Step("getUser", "ok"))]
    /\ UNCHANGED <<storage, resumes, dr, ex, ap, cl, profiles, dc>>

\* lines 51-63: createClient reads the session the request carries (that of a
\* user, or none), and auth.getUser asks the identity provider for its user
parseResume_getUser(r) ==
    /\ pr[r].pc = "getUser"
    /\ \E caller \in Users \cup {None} :
        \/ \E thrown \in Thrown :
            pr' = [pr EXCEPT ![r].pc = "done", ![r].caller = caller, ![r].caught = thrown,
                             ![r].result = Failure(Caught(thrown, "An unexpected error occurred")),
                             ![r].trace = Append(@, Step("getUser", "throw"))]
        \/ \E authError \in BOOLEAN :
            \* no session, or the identity provider answers with an error
            /\ authError \/ caller = None
            /\ pr' = [pr EXCEPT ![r].pc = "done", ![r].caller = caller,
                                ![r].result = Failure(Msg("You must be logged in to upload a resume")),
                                ![r].trace = Append(@, Step("getUser", "error"))]
        \/ /\ caller # None
           /\ pr' = [pr EXCEPT ![r].pc = "upload", ![r].caller = caller, ![r].user = caller,
                               ![r].trace = Append(@, Step("getUser", "ok"))]
    /\ UNCHANGED <<storage, resumes, dr, ex, ap, cl, profiles, dc>>

\* storage.from('resumes').upload(filePath, file, {upsert}): the store takes the
\* object at a free path, and at a taken path only when asked to upsert
Upload(filePath, r, upsert) ==
    /\ upsert \/ filePath \notin StoredNames
    /\ storage' = Removed(filePath) \cup {[name |-> filePath, by |-> r]}

\* (variant: upsert: true)
parseResume_upload_upsert(r) ==
    /\ pr[r].pc = "upload"
    /\ \E timestamp \in Timestamps :
        LET filePath == FilePath(pr[r].user, timestamp, pr[r].file.name) IN
        \/ /\ Upload(filePath, r, TRUE)
           /\ pr' = [pr EXCEPT ![r].pc = "extract", ![r].filePath = filePath,
                               ![r].fileUrl = getPublicUrl(filePath),
                               ![r].trace = Append(@, Step("upload", "ok"))]
        \/ /\ UNCHANGED storage
           /\ Return(r, Failure(<<"Failed to upload file: ", "storage error">>),
                     Step("upload", "error"))
        \/ /\ UNCHANGED storage
           /\ \E thrown \in CallThrown :
                ReturnCaught(r, thrown, "Upload failed", "upload")
    /\ UNCHANGED <<resumes, dr, ex, ap, cl, profiles, dc>>

\* (variant: uploadResult.success is not looked at)
parseResume_upload_unchecked(r) ==
    /\ pr[r].pc = "upload"
    /\ \E timestamp \in Timestamps :
        LET filePath == FilePath(pr[r].user, timestamp, pr[r].file.name) IN
        \/ /\ Upload(filePath, r, FALSE)
           /\ pr' = [pr EXCEPT ![r].pc = "extract", ![r].filePath = filePath,
                               ![r].fileUrl = getPublicUrl(filePath),
                               ![r].trace = Append(@, Step("upload", "ok"))]
        \/ /\ UNCHANGED storage
           /\ pr' = [pr EXCEPT ![r].pc = "extract",
                               ![r].trace = Append(@, Step("upload", "error"))]
        \/ /\ UNCHANGED storage
           /\ \E thrown \in CallThrown :
                ReturnCaught(r, thrown, "Upload failed", "upload")
    /\ UNCHANGED <<resumes, dr, ex, ap, cl, profiles, dc>>

\* lines 65-72 and uploadResumeFile, lines 141-190
parseResume_upload(r) ==
    /\ pr[r].pc = "upload"
    /\ \E timestamp \in Timestamps :
        LET filePath == FilePath(pr[r].user, timestamp, pr[r].file.name) IN
        \/ /\ Upload(filePath, r, FALSE)
           /\ pr' = [pr EXCEPT ![r].pc = "extract", ![r].filePath = filePath,
                               ![r].fileUrl = getPublicUrl(filePath),
                               ![r].trace = Append(@, Step("upload", "ok"))]
        \/ \* the store answers with an error (it does when the path is taken)
           /\ UNCHANGED storage
           /\ Return(r, Failure(<<"Failed to upload file: ", "storage error">>),
                     Step("upload", "error"))
        \/ \* the call throws, and uploadResumeFile catches it
           /\ UNCHANGED storage
           /\ \E thrown \in CallThrown :
                ReturnCaught(r, thrown, "Upload failed", "upload")
    /\ UNCHANGED <<resumes, dr, ex, ap, cl, profiles, dc>>

\* lines 74-76 and extractTextFromFile, lines 195-234; the parsing library
\* behaves as one of `libs`
parseResume_extractWith(r, libs) ==
    /\ pr[r].pc = "extract"
    /\ \/ \E lib \in libs :
            LET extractionResult == extractTextFromFile(pr[r].file, lib) IN
            pr' = [pr EXCEPT ![r].pc = IF extractionResult.success THEN "insert" ELSE "cleanupExtract",
                             ![r].extractor = Dispatch(pr[r].file),
                             ![r].extraction = extractionResult,
                             ![r].caught = lib.thrown,
                             ![r].trace = Append(@, Step("extract", IF extractionResult.success
                                                                   THEN "ok" ELSE "error"))]
       \/ \* file.arrayBuffer() throws, into the catch of lines 227-233
          \E thrown \in FileThrown :
            pr' = [pr EXCEPT ![r].pc = "cleanupExtract",
                             ![r].extraction = NotExtracted(Caught(thrown, "Text extraction failed")),
                             ![r].caught = thrown,
                             ![r].trace = Append(@, Step("extract", "error"))]
    /\ UNCHANGED <<storage, resumes, dr, ex, ap, cl, profiles, dc>>

\* the library behaves as one of LibOutcomes
parseResume_extract(r) == parseResume_extractWith(r, LibOutcomes)

\* the compensating storage.remove([filePath]) of lines 78 and 110, after which
\* the request returns `result`; the answer of remove is not looked at
Cleanup(r, result) ==
    \/ /\ storage' = Removed(pr[r].filePath)
       /\ Return(r, result, Step("remove", "ok"))
    \/ \* the store answers with an error
       /\ UNCHANGED storage
       /\ Return(r, result, Step("remove", "error"))
    \/ \* the call throws, into the catch of lines 129-135
       /\ UNCHANGED storage
       /\ \E thrown \in CallThrown :
            ReturnCaught(r, thrown, "An unexpected error occurred", "remove")

\* (variant: the return of lines 80-83 is missing)
parseResume_cleanupExtract_fallsThrough(r) ==
    /\ pr[r].pc = "cleanupExtract"
    /\ \E out \in {"ok", "error"} :
        /\ storage' = IF out = "ok" THEN Removed(pr[r].filePath) ELSE storage
        /\ pr' = [pr EXCEPT ![r].pc = "insert", ![r].trace = Append(@, Step("remove", out))]
    /\ UNCHANGED <<resumes, dr, ex, ap, cl, profiles, dc>>

\* lines 76-84
parseResume_cleanupExtract(r) ==
    /\ pr[r].pc = "cleanupExtract"
    /\ Cleanup(r, Failure(pr[r].extraction.error))
    /\ UNCHANGED <<resumes, dr, ex, ap, cl, profiles, dc>>

\* (variant: the whole text, then the dots)
textPreview_whole(text) == text \o <<".", ".", ".">>

\* line 126: text.substring(0, 500) + '...'
textPreview(text) ==
    SubSeq(text, 1, IF Len(text) < 500 THEN Len(text) ELSE 500) \o <<".", ".", ".">>

\* (variant: the insert is awaited outside the try block, so what it throws
\* leaves parseResume as an exception: the request ends "raised")
parseResume_insert_uncaught(r) ==
    /\ pr[r].pc = "insert"
    /\ \/ LET fileType == IF pr[r].file.type = PDF_MIME THEN "pdf" ELSE "docx"
              resumeTitle == IF pr[r].title # NoTitle THEN pr[r].title
                             ELSE generateResumeTitle(pr[r].file.name)
              resume == [id |-> r, user_id |-> pr[r].user, title |-> resumeTitle,
                         file_url |-> pr[r].fileUrl,
                         raw_text |-> pr[r].extraction.text,
                         file_size |-> pr[r].file.size,
                         file_type |-> fileType,
                         by |-> r]
          IN  /\ resumes' = resumes \cup {resume}
              /\ Return(r, Success([resumeId |-> resume.id, title |-> resume.title,
                                    fileUrl |-> resume.file_url,
                                    textPreview |-> textPreview(pr[r].extraction.text)]),
                        Step("insert", "ok"))
       \/ /\ UNCHANGED resumes
          /\ \E dbError \in DbErrors :
                pr' = [pr EXCEPT ![r].pc = "cleanupInsert", ![r].dbError = dbError,
                                 ![r].trace = Append(@, Step("insert", "error"))]
       \/ /\ UNCHANGED resumes
          /\ \E thrown \in CallThrown :
                pr' = [pr EXCEPT ![r].pc = "raised", ![r].caught = thrown,
                                 ![r].trace = Append(@, Step("insert", "throw"))]
    /\ UNCHANGED <<storage, dr, ex, ap, cl, profiles, dc>>

\* lines 86-108 and 119-128
parseResume_insert(r) ==
    /\ pr[r].pc = "insert"
    /\ \/ LET fileType == IF pr[r].file.type = PDF_MIME THEN "pdf" ELSE "docx"
              resumeTitle == IF pr[r].title # NoTitle THEN pr[r].title
                             ELSE generateResumeTitle(pr[r].file.name)
              resume == [id |-> r, user_id |-> pr[r].user, title |-> resumeTitle,
                         file_url |-> pr[r].fileUrl,
                         raw_text |-> pr[r].extraction.text,
                         file_size |-> pr[r].file.size,
                         file_type |-> fileType,
                         by |-> r]
          IN  /\ resumes' = resumes \cup {resume}
              /\ Return(r, Success([resumeId |-> resume.id, title |-> resume.title,
                                    fileUrl |-> resume.file_url,
                                    textPreview |-> textPreview(pr[r].extraction.text)]),
                        Step("insert", "ok"))
       \/ \* the datastore answers with an error
          /\ UNCHANGED resumes
          /\ \E dbError \in DbErrors :
                pr' = [pr EXCEPT ![r].pc = "cleanupInsert", ![r].dbError = dbError,
                                 ![r].trace = Append(@, Step("insert", "error"))]
       \/ \* the call throws, into the catch of lines 129-135
          /\ UNCHANGED resumes
          /\ \E thrown \in CallThrown :
                ReturnCaught(r, thrown, "An unexpected error occurred", "insert")
    /\ UNCHANGED <<storage, dr, ex, ap, cl, profiles, dc>>

\* lines 108-117
parseResume_cleanupInsert(r) ==
    /\ pr[r].pc = "cleanupInsert"
    /\ Cleanup(r, Failure(Msg("Failed to save resume to database")))
    /\ UNCHANGED <<resumes, dr, ex, ap, cl, profiles, dc>>

parseResume(r) ==
    \/ parseResume_validate(r)
    \/ parseResume_getUser(r)
    \/ parseResume_upload(r)
    \/ parseResume_extract(r)
    \/ parseResume_cleanupExtract(r)
    \/ parseResume_insert(r)
    \/ parseResume_cleanupInsert(r)

\* ------------------------------------------------------------ deleteResume
\* The server client carries the caller's session, so the datastore applies the
\* row-level policies of the resumes table with auth.uid() = the caller:
\* "Users can view own resumes" and "Users can delete own resumes".
\* (variant: the table without row-level security)
VisibleTo_withoutRLS(caller) == resumes

VisibleTo(caller) == {x \in resumes : x.user_id = caller}

\* the ids a delete request can name: those the runs create, and one of no record
ResumeIds == Runs \cup {0}

ReturnD(d, result, step) ==
    dr' = [dr EXCEPT ![d].pc = "done", ![d].result = result, ![d].trace = Append(@, step)]

\* the catch of lines 313-319 took `thrown` at the step `op`
ReturnCaughtD(d, thrown, op) ==
    dr' = [dr EXCEPT ![d].pc = "done", ![d].caught = thrown,
                     ![d].result = Failure(Caught(thrown, "Delete failed")),
                     ![d].trace = Append(@, Step(op, "throw"))]

\* (variant: only fetchError is tested, `!resume` is not)
deleteResume_fetch_ignoresMissing(d) ==
    /\ dr[d].pc = "call"
    /\ \E resumeId \in ResumeIds, caller \in Users \cup {None} :
        LET found == {x \in VisibleTo(caller) : x.id = resumeId}
            called == [dr EXCEPT ![d].resumeId = resumeId, ![d].caller = caller,
                                 ![d].owner = IF \E x \in resumes : x.id = resumeId
                                              THEN (CHOOSE x \in resumes : x.id = resumeId).user_id
                                              ELSE None]
        IN
        \/ \E thrown \in Thrown :
             dr' = [called EXCEPT ![d].pc = "done", ![d].caught = thrown,
                                  ![d].result = Failure(Caught(thrown, "Delete failed")),
                                  ![d].trace = Append(@, Step("select", "throw"))]
        \/ \E fetchError \in BOOLEAN :
             IF fetchError
             THEN dr' = [called EXCEPT ![d].pc = "done",
                                       ![d].result = Failure(Msg("Resume not found")),
                                       ![d].trace = Append(@, Step("select", "error"))]
             ELSE dr' = [called EXCEPT ![d].pc = "getUser",
                                       ![d].resume = IF found = {} THEN NoResume
                                                     ELSE CHOOSE x \in found : TRUE,
                                       ![d].trace = Append(@, Step("select", "ok"))]
    /\ UNCHANGED <<storage, resumes, pr, ex, ap, cl, profiles, dc>>

\* lines 262-277: createClient and the lookup of the record
deleteResume_fetch(d) ==
    /\ dr[d].pc = "call"
    /\ \E resumeId \in ResumeIds, caller \in Users \cup {None} :
        LET found == {x \in VisibleTo(caller) : x.id = resumeId}
            \* owner: whose record the id names when the call is made (for the claims)
            called == [dr EXCEPT ![d].resumeId = resumeId, ![d].caller = caller,
                                 ![d].owner = IF \E x \in resumes : x.id = resumeId
                                              THEN (CHOOSE x \in resumes : x.id = resumeId).user_id
                                              ELSE None]
        IN
        \/ \E thrown \in Thrown :
             dr' = [called EXCEPT ![d].pc = "done", ![d].caught = thrown,
                                  ![d].result = Failure(Caught(thrown, "Delete failed")),
                                  ![d].trace = Append(@, Step("select", "throw"))]
        \/ \E fetchError \in BOOLEAN :
             IF fetchError \/ found = {}
             THEN dr' = [called EXCEPT ![d].pc = "done",
                                       ![d].result = Failure(Msg("Resume not found")),
                                       ![d].trace = Append(@, Step("select", "error"))]
             ELSE dr' = [called EXCEPT ![d].pc = "getUser",
                                       ![d].resume = CHOOSE x \in found : TRUE,
                                       ![d].trace = Append(@, Step("select", "ok"))]
    /\ UNCHANGED <<storage, resumes, pr, ex, ap, cl, profiles, dc>>

\* lines 279-292: the ownership check and the path of the blob
deleteResume_getUser(d) ==
    /\ dr[d].pc = "getUser"
    /\ \/ \E thrown \in CallThrown :
            ReturnCaughtD(d, thrown, "getUser")
       \/ \E user \in {dr[d].caller, None} :
            IF user = None \/ user # dr[d].resume.user_id
            THEN ReturnD(d, Failure(Msg("Unauthorized")), Step("getUser", "error"))
            ELSE dr' = [dr EXCEPT ![d].pc = "delete",
                                  ![d].filePath = extractFilePathFromUrl(dr[d].resume.file_url, user),
                                  ![d].trace = Append(@, Step("getUser", "ok"))]
    /\ UNCHANGED <<storage, resumes, pr, ex, ap, cl, profiles, dc>>

\* (variant: deleteError is not looked at)
deleteResume_delete_ignoresError(d) ==
    /\ dr[d].pc = "delete"
    /\ \/ /\ resumes' = resumes \ {x \in VisibleTo(dr[d].caller) : x.id = dr[d].resumeId}
          /\ IF dr[d].filePath # NoPath
             THEN dr' = [dr EXCEPT ![d].pc = "remove",
                                   ![d].trace = Append(@, Step("delete", "ok"))]
             ELSE ReturnD(d, Success(NoData), Step("delete", "ok"))
       \/ /\ UNCHANGED resumes
          /\ IF dr[d].filePath # NoPath
             THEN dr' = [dr EXCEPT ![d].pc = "remove",
                                   ![d].trace = Append(@, Step("delete", "error"))]
             ELSE ReturnD(d, Success(NoData), Step("delete", "error"))
       \/ /\ UNCHANGED resumes
          /\ \E thrown \in CallThrown :
                ReturnCaughtD(d, thrown, "delete")
    /\ UNCHANGED <<storage, pr, ex, ap, cl, profiles, dc>>

\* lines 294-312: delete the record
deleteResume_delete(d) ==
    /\ dr[d].pc = "delete"
    /\ \/ /\ resumes' = resumes \ {x \in VisibleTo(dr[d].caller) : x.id = dr[d].resumeId}
          /\ IF dr[d].filePath # NoPath
             THEN dr' = [dr EXCEPT ![d].pc = "remove",
                                   ![d].trace = Append(@, Step("delete", "ok"))]
             ELSE ReturnD(d, Success(NoData), Step("delete", "ok"))
       \/ \* the datastore answers with an error
          /\ UNCHANGED resumes
          /\ ReturnD(d, Failure(Msg("Failed to delete resume")), Step("delete", "error"))
       \/ /\ UNCHANGED resumes
          /\ \E thrown \in CallThrown :
                ReturnCaughtD(d, thrown, "delete")
    /\ UNCHANGED <<storage, pr, ex, ap, cl, profiles, dc>>

\* lines 305-312: delete the blob; the answer of remove is not looked at
deleteResume_remove(d) ==
    /\ dr[d].pc = "remove"
    /\ \/ /\ storage' = Removed(dr[d].filePath)
          /\ ReturnD(d, Success(NoData), Step("remove", "ok"))
       \/ \* the store answers with an error
          /\ UNCHANGED storage
          /\ ReturnD(d, Success(NoData), Step("remove", "error"))
       \/ \* the call throws, into the catch of lines 313-319
          /\ UNCHANGED storage
          /\ \E thrown \in CallThrown :
                ReturnCaughtD(d, thrown, "remove")
    /\ UNCHANGED <<resumes, pr, ex, ap, cl, profiles, dc>>

deleteResume(d) ==
    \/ deleteResume_fetch(d)
    \/ deleteResume_getUser(d)
    \/ deleteResume_delete(d)
    \/ deleteResume_remove(d)

\* ---------------------------------------------------------- specifications
\* parseResume and deleteResume requests, interleaved at their awaits
Next ==
    \/ \E r \in Runs : parseResume(r)
    \/ \E d \in Deleters : deleteResume(d)

Spec == Init /\ [][Next]_vars

\* concurrent parseResume requests alone
NextIngest == \E r \in Runs : parseResume(r)

SpecIngest == Init /\ [][NextIngest]_vars

\* ------------------------------------------------- the extractors, by step
\* extractTextFromPDF and extractTextFromDOCX called on their own, one await
\* per action; the operators extractTextFromPDF / extractTextFromDOCX above
\* give the result of each exit.
Alphabet == {"a", " ", "\t", "\n"}
TextsUpTo(n) == UNION {[1..k -> Alphabet] : k \in 0..n}

\* the buffers an extractor is called with: empty, a PDF, a ZIP archive
Buffers == { <<>>, <<"%", "P", "D", "F", "-">>, <<"P", "K">> }

\* what pdf-parse and mammoth throw
LibThrown ==
    { [isError |-> TRUE, message |-> <<"Invalid PDF", " structure">>, digest |-> ""],
      [isError |-> TRUE, message |-> <<"No ", "password", " given">>, digest |-> ""],
      [isError |-> TRUE, message |-> <<"Could not find file in options: ", "not a valid", " docx">>,
       digest |-> ""],
      [isError |-> TRUE, message |-> <<"Can't find end of central directory : is this a ", "zip",
                                       " file ?">>, digest |-> ""],
      [isError |-> TRUE, message |-> Msg("bad XRef entry"), digest |-> ""],
      [isError |-> FALSE, message |-> Msg("timeout"), digest |-> ""] }

\* the diagnostics of type 'error' mammoth returns with the text
LibErrors == { <<>>, <<"Unrecognised element">> }

LibReturned(text, errors) ==
    [kind |-> "text", text |-> text, errors |-> errors, thrown |-> NoThrown]
LibThrew(thrown) ==
    [kind |-> "throw", text |-> <<>>, errors |-> <<>>, thrown |-> thrown]

InitExtract ==
    /\ InitRequests
    /\ ex = [NoExtractor EXCEPT !.pc = "call"]
    /\ ap = NoApplication
    /\ profiles = [u \in Users |-> DefaultCredits]

\* the catch of lines 266-293 took `thrown`
extractTextFromPDF_catch(thrown) ==
    ex' = [ex EXCEPT !.pc = "done", !.caught = thrown,
                     !.result = extractTextFromPDF(Len(ex.buffer), LibThrew(thrown))]

\* lines 220-236: the buffer check, the import and new PDFParse
extractTextFromPDF_call ==
    /\ ex.pc = "call"
    /\ \E buffer \in Buffers :
        LET called == [ex EXCEPT !.format = "pdf", !.buffer = buffer] IN
        IF Len(buffer) = 0
        THEN ex' = [called EXCEPT !.pc = "done",
                                  !.result = extractTextFromPDF(0, LibReturned(<<>>, <<>>))]
        ELSE \/ ex' = [called EXCEPT !.pc = "getText", !.parser = "open"]
             \/ \* the import or the constructor throws: there is no parser
                \E thrown \in LibThrown :
                    ex' = [called EXCEPT !.pc = "done", !.caught = thrown,
                                         !.result = extractTextFromPDF(Len(buffer), LibThrew(thrown))]
    /\ UNCHANGED <<storage, resumes, pr, dr, ap, cl, profiles, dc>>

\* line 239
extractTextFromPDF_getText ==
    /\ ex.pc = "getText"
    /\ \/ \E text \in TextsUpTo(MaxTextLen) : ex' = [ex EXCEPT !.pc = "getInfo", !.text = text]
       \/ \E thrown \in LibThrown : extractTextFromPDF_catch(thrown)
    /\ UNCHANGED <<storage, resumes, pr, dr, ap, cl, profiles, dc>>

\* line 242
extractTextFromPDF_getInfo ==
    /\ ex.pc = "getInfo"
    /\ \/ ex' = [ex EXCEPT !.pc = "destroy"]
       \/ \E thrown \in LibThrown : extractTextFromPDF_catch(thrown)
    /\ UNCHANGED <<storage, resumes, pr, dr, ap, cl, profiles, dc>>

\* lines 245-265: destroy, then the text is validated and cleaned
extractTextFromPDF_destroy ==
    /\ ex.pc = "destroy"
    /\ \/ ex' = [ex EXCEPT !.pc = "done", !.parser = "destroyed",
                            !.result = extractTextFromPDF(Len(ex.buffer), LibReturned(ex.text, <<>>))]
       \/ \* destroy itself throws: it was called, the parser is not left open
          \E thrown \in LibThrown :
            ex' = [ex EXCEPT !.pc = "done", !.parser = "destroyed", !.caught = thrown,
                             !.result = extractTextFromPDF(Len(ex.buffer), LibThrew(thrown))]
    /\ UNCHANGED <<storage, resumes, pr, dr, ap, cl, profiles, dc>>

\* lines 25-35: the buffer check
extractTextFromDOCX_call ==
    /\ ex.pc = "call"
    /\ \E buffer \in Buffers :
        LET called == [ex EXCEPT !.format = "docx", !.buffer = buffer] IN
        IF Len(buffer) = 0
        THEN ex' = [called EXCEPT !.pc = "done",
                                  !.result = extractTextFromDOCX(0, LibReturned(<<>>, <<>>))]
        ELSE ex' = [called EXCEPT !.pc = "extractRawText"]
    /\ UNCHANGED <<storage, resumes, pr, dr, ap, cl, profiles, dc>>

\* lines 37-106: mammoth.extractRawText and what is made of its answer
extractTextFromDOCX_extractRawText ==
    /\ ex.pc = "extractRawText"
    /\ \/ \E text \in TextsUpTo(MaxTextLen), errors \in LibErrors :
            ex' = [ex EXCEPT !.pc = "done", !.text = text, !.errors = errors,
                             !.result = extractTextFromDOCX(Len(ex.buffer), LibReturned(text, errors))]
       \/ \E thrown \in LibThrown :
            ex' = [ex EXCEPT !.pc = "done", !.caught = thrown,
                             !.result = extractTextFromDOCX(Len(ex.buffer), LibThrew(thrown))]
    /\ UNCHANGED <<storage, resumes, pr, dr, ap, cl, profiles, dc>>

NextExtract ==
    \/ extractTextFromPDF_call
    \/ extractTextFromPDF_getText
    \/ extractTextFromPDF_getInfo
    \/ extractTextFromPDF_destroy
    \/ extractTextFromDOCX_call
    \/ extractTextFromDOCX_extractRawText

SpecExtract == InitExtract /\ [][NextExtract]_vars

\* ------------------------------------------------------------ the validator
\* the validators applied to a file, one application per behaviour
NameUpper == <<"A", ".", "P", "D", "F">>
NameBare == <<"c", "v">>

\* every combination of a name, a declared type and a size
AnyFiles ==
    [name : {NamePdf, NameDocx, NameTxt, NameUpper, NameBare},
     type : {PDF_MIME, DOCX_MIME, "text/plain", ""},
     size : {0, 1, MAX_FILE_SIZE - 1, MAX_FILE_SIZE, MAX_FILE_SIZE + 1, 2 * MAX_FILE_SIZE}]

Apply(fn, input, output) ==
    /\ ap = NoApplication
    /\ ap' = [fn |-> fn, input |-> input, output |-> output]
    /\ UNCHANGED <<storage, resumes, pr, dr, ex, cl, profiles, dc>>

validateFileNotEmpty_apply ==
    \E file \in AnyFiles : Apply("validateFileNotEmpty", file, validateFileNotEmpty(file))

validateFileType_apply ==
    \E file \in AnyFiles : Apply("validateFileType", file, validateFileType(file))

validateFileSize_apply ==
    \E file \in AnyFiles : Apply("validateFileSize", file, validateFileSize(file))

validateResumeFile_apply ==
    \E file \in AnyFiles : Apply("validateResumeFile", file, validateResumeFile(file))

NextValidate ==
    \/ validateFileNotEmpty_apply
    \/ validateFileType_apply
    \/ validateFileSize_apply
    \/ validateResumeFile_apply

SpecValidate == Init /\ [][NextValidate]_vars

\* ----------------------------------------------------------- the normaliser
\* cleanText of either parser applied to a text, and then to its own output
cleanTextPDF_apply ==
    \E text \in TextsUpTo(MaxLen) : Apply("cleanTextPDF", text, cleanTextPDF(text))

cleanTextDOCX_apply ==
    \E text \in TextsUpTo(MaxLen) : Apply("cleanTextDOCX", text, cleanTextDOCX(text))

cleanTextPDF_again ==
    /\ ap.fn = "cleanTextPDF"
    /\ ap' = [fn |-> "cleanTextPDF again", input |-> ap.output,
              output |-> cleanTextPDF(ap.output)]
    /\ UNCHANGED <<storage, resumes, pr, dr, ex, cl, profiles, dc>>

cleanTextDOCX_again ==
    /\ ap.fn = "cleanTextDOCX"
    /\ ap' = [fn |-> "cleanTextDOCX again", input |-> ap.output,
              output |-> cleanTextDOCX(ap.output)]
    /\ UNCHANGED <<storage, resumes, pr, dr, ex, cl, profiles, dc>>

NextNormalize ==
    \/ cleanTextPDF_apply
    \/ cleanTextDOCX_apply
    \/ cleanTextPDF_again
    \/ cleanTextDOCX_again

SpecNormalize == Init /\ [][NextNormalize]_vars

\* -------------------------------------------------------- the magic numbers
\* isValidPDFBuffer and isValidDOCXBuffer applied to a buffer; bytes are
\* written as the characters they encode
Bytes == {"%", "P", "D", "F", "-", "K"}
BuffersUpTo(n) == UNION {[1..k -> Bytes] : k \in 0..n}

\* Buffer.prototype.slice(0, n)
Slice(buffer, n) == SubSeq(buffer, 1, IF Len(buffer) < n THEN Len(buffer) ELSE n)

\* isValidPDFBuffer: the first five bytes read '%PDF-'
isValidPDFBuffer(buffer) == Slice(buffer, 5) = <<"%", "P", "D", "F", "-">>

\* isValidDOCXBuffer: header[0] is 'P' (0x50) and header[1] is 'K' (0x4B); an
\* index past the end of the slice reads undefined
isValidDOCXBuffer(buffer) ==
    LET header == Slice(buffer, 2) IN
    /\ Len(header) >= 1 /\ header[1] = "P"
    /\ Len(header) >= 2 /\ header[2] = "K"

isValidPDFBuffer_apply ==
    \E buffer \in BuffersUpTo(MaxBufferLen) :
        Apply("isValidPDFBuffer", buffer, isValidPDFBuffer(buffer))

isValidDOCXBuffer_apply ==
    \E buffer \in BuffersUpTo(MaxBufferLen) :
        Apply("isValidDOCXBuffer", buffer, isValidDOCXBuffer(buffer))

NextSniff ==
    \/ isValidPDFBuffer_apply
    \/ isValidDOCXBuffer_apply

SpecSniff == Init /\ [][NextSniff]_vars

\* ------------------------------------------------------------ a single upload
\* one parseResume request alone, with the file names, the titles and the
\* library answers that the derivation of the title and the preview tell apart
NameJohn ==
    <<"j", "o", "h", "n", "_", "d", "o", "e", "_", "r", "e", "s", "u", "m", "e", "_",
      "2", "0", "2", "4", ".", "p", "d", "f">>
NameMixed == <<"m", "y", "-", "C", "V", "_", "v", "2", ".", "D", "O", "C", "X">>
NameDot == <<".", "p", "d", "f">>
NameUnderscore == <<"_", ".", "p", "d", "f">>
NameUnsafe == <<".", ".", "/", "b", " ", "c", ".", "p", "d", "f">>

UploadNames == {NamePdf, NameDocx, NameUpper, NameJohn, NameMixed, NameDot, NameUnderscore, NameUnsafe}

\* every name under either accepted type, and the files of Files
UploadFiles == Files \cup [name : UploadNames, type : {PDF_MIME, DOCX_MIME}, size : {1}]

\* formData.get('title'): absent or empty, a title, a blank
Titles == {NoTitle, <<"M", "y", " ", "C", "V">>, <<" ">>}

\* a text of n characters in words of nine letters and less
Paragraph(n) == [i \in 1..n |-> IF i % 10 = 5 THEN " " ELSE "a"]

\* the library also returns texts of 500 characters and of more
UploadLibOutcomes ==
    LibOutcomes \cup {LibReturned(Paragraph(500), <<>>), LibReturned(Paragraph(LongTextLen), <<>>)}

NextUpload ==
    \/ parseResume_validateForm(1, UploadFiles, Titles)
    \/ parseResume_getUser(1)
    \/ parseResume_upload(1)
    \/ parseResume_extractWith(1, UploadLibOutcomes)
    \/ parseResume_cleanupExtract(1)
    \/ parseResume_insert(1)
    \/ parseResume_cleanupInsert(1)

SpecUpload == Init /\ [][NextUpload]_vars

\* ------------------------------------------------------------------ the paths
\* A path and a URL as the characters the store and the datastore see.
\* the uuid the identity provider gives a user
UserId == [u \in Users |-> IF u = "userA" THEN <<"a", "1">> ELSE <<"b", "2">>]

Digits == <<"0", "1", "2", "3", "4", "5", "6", "7", "8", "9">>

\* new Date().toISOString() of the instant t
ToISOString(t) ==
    <<"2", "0", "2", "4", "-", "0", "1", "-", "0", "1", "T", "0", "0", ":", "0", "0", ":",
      "0", "0", ".", "0", "0", Digits[(t % 10) + 1], "Z">>

\* .replace(/[:.]/g, '-')
DashPunctuation(s) == [i \in 1..Len(s) |-> IF s[i] \in {":", "."} THEN "-" ELSE s[i]]

\* the characters of `${userId}/${timestamp}_${safeFilename}`
PathString(filePath) ==
    UserId[filePath[1]] \o <<"/">> \o DashPunctuation(ToISOString(filePath[2])) \o <<"_">>
        \o filePath[3]

\* the public URL of an object: <project>/storage/v1/object/public/<bucket>/<path>
UrlString(url) ==
    <<"h", "t", "t", "p", "s", ":", "/", "/", "p", ".", "s", "u", "p", "a", "b", "a", "s", "e",
      ".", "c", "o", "/", "s", "t", "o", "r", "a", "g", "e", "/", "v", "1", "/", "o", "b", "j",
      "e", "c", "t", "/", "p", "u", "b", "l", "i", "c", "/", "r", "e", "s", "u", "m", "e", "s", "/">>
        \o PathString(url.path)

\* (storage.foldername(name))[1]: what precedes the first '/' of the name
FirstFolder(name) ==
    LET slashes == SelectSeq(Positions(name), LAMBDA i : name[i] = "/")
    IN  IF Len(slashes) = 0 THEN <<>> ELSE SubSeq(name, 1, slashes[1] - 1)

\* s LIKE '%' || pattern: s ends with a match of the pattern, in which '_'
\* stands for any one character (no '%' occurs in a path)
LikeSuffix(s, pattern) ==
    /\ Len(s) >= Len(pattern)
    /\ \A i \in 1..Len(pattern) :
            pattern[i] = "_" \/ pattern[i] = s[Len(s) - Len(pattern) + i]

\* ---------------------------------------------------------------- the cleanup
\* cleanup_orphaned_resume_files, lines 69-78: the objects of the bucket in the
\* folder of auth.uid() that no record of auth.uid() names
OrphanedFiles(uid) ==
    { o \in storage :
        /\ FirstFolder(PathString(o.name)) = UserId[uid]
        /\ ~ \E x \in resumes :
                /\ LikeSuffix(UrlString(x.file_url), PathString(o.name))
                /\ x.user_id = uid }

\* cleanupOrphanedFiles, lines 307-337: the rpc runs the function in one
\* transaction, with the session of the caller (or none: auth.uid() is NULL)
cleanupOrphanedFiles ==
    /\ cl.pc = "call"
    /\ \E caller \in Users \cup {None} :
        \/ LET orphans == IF caller = None THEN {} ELSE OrphanedFiles(caller) IN
           /\ storage' = storage \ orphans
           /\ cl' = [pc |-> "done", caller |-> caller, deleted |-> {o.name : o \in orphans},
                     result |-> Cleaned(Cardinality(orphans))]
        \/ \* the rpc answers with an error
           /\ UNCHANGED storage
           /\ cl' = [pc |-> "done", caller |-> caller, deleted |-> {},
                     result |-> NotCleaned(Msg("canceling statement due to statement timeout"))]
        \/ \* the rpc throws, into the catch of lines 329-336
           /\ UNCHANGED storage
           /\ \E thrown \in CallThrown :
                cl' = [pc |-> "done", caller |-> caller, deleted |-> {},
                       result |-> NotCleaned(Caught(thrown, "Unknown error occurred"))]
    /\ UNCHANGED <<resumes, pr, dr, ex, ap, profiles, dc>>

\* one parseResume request and one cleanup, interleaved at the awaits
NextCleanup ==
    \/ parseResume(1)
    \/ cleanupOrphanedFiles

SpecCleanup == Init /\ [][NextCleanup]_vars

\* ---------------------------------------------------------------- the credits
\* deduct_credits(amount), called over rpc: each call is one transaction at
\* the isolation level READ COMMITTED, so its SELECT and its UPDATE are two
\* steps between which other calls commit.
\* lines 203-211: the SELECT and the test
deduct_credits_select(c) ==
    /\ dc[c].pc = "call"
    /\ \E caller \in Users \cup {None}, amount \in Amounts :
        LET called == [dc EXCEPT ![c].caller = caller, ![c].amount = amount] IN
        IF caller = None
        THEN \* no row of auth.uid(): current_credits IS NULL
             dc' = [called EXCEPT ![c].pc = "done", ![c].result = "FALSE"]
        ELSE IF profiles[caller] < amount
        THEN dc' = [called EXCEPT ![c].pc = "done", ![c].current_credits = profiles[caller],
                                  ![c].result = "FALSE"]
        ELSE dc' = [called EXCEPT ![c].pc = "update", ![c].current_credits = profiles[caller]]
    /\ UNCHANGED <<storage, resumes, pr, dr, ex, ap, cl, profiles>>

\* lines 213-218: the UPDATE takes the row as it is now, and the column's
\* CHECK (credits >= 0) makes it raise instead of storing a negative balance
deduct_credits_update(c) ==
    /\ dc[c].pc = "update"
    /\ LET credits == profiles[dc[c].caller] - dc[c].amount IN
       IF credits < 0
       THEN /\ UNCHANGED profiles
            /\ dc' = [dc EXCEPT ![c].pc = "done", ![c].result = "raised"]
       ELSE /\ profiles' = [profiles EXCEPT ![dc[c].caller] = credits]
            /\ dc' = [dc EXCEPT ![c].pc = "done", ![c].result = "TRUE"]
    /\ UNCHANGED <<storage, resumes, pr, dr, ex, ap, cl>>

deduct_credits(c) ==
    \/ deduct_credits_select(c)
    \/ deduct_credits_update(c)

\* every profile starts with some balance
InitCredits ==
    /\ InitRequests
    /\ ex = NoExtractor
    /\ ap = NoApplication
    /\ profiles \in [Users -> 0..MaxCredits]

NextCredits == \E c \in Callers : deduct_credits(c)

SpecCredits == InitCredits /\ [][NextCredits]_vars

\* ------------------------------------------------------------------ claims
Done(r) == pr[r].pc = "done"
HasStep(trace, op, out) == \E i \in 1..Len(trace) : trace[i] = Step(op, out)
Issued(trace, op) == \E i \in 1..Len(trace) : trace[i].op = op
\* what a run has left in the blob store and in the datastore
BlobsOf(r) == {o \in storage : o.by = r}
RecordsOf(r) == {x \in resumes : x.by = r}

\* C1: every parseResume run is atomic from the caller's view: a run that
\* returned success=false has left no blob and no record, and a run that
\* returned success=true has left its blob and exactly one record referencing it.
C1_Atomic ==
    \A r \in Runs :
        Done(r) =>
            IF pr[r].result.success
            THEN /\ BlobsOf(r) = {[name |-> pr[r].filePath, by |-> r]}
                 /\ Cardinality(RecordsOf(r)) = 1
                 /\ \A x \in RecordsOf(r) : x.file_url = getPublicUrl(pr[r].filePath)
            ELSE BlobsOf(r) = {} /\ RecordsOf(r) = {}

\* C2: when upload and extraction succeeded and the insert answered with an
\* error, the run returns 'Failed to save resume to database' and its blob is
\* no longer in the store.
C2_RollbackOnInsertError ==
    \A r \in Runs :
        (Done(r) /\ HasStep(pr[r].trace, "insert", "error")) =>
            /\ BlobsOf(r) = {}
            /\ pr[r].result = Failure(Msg("Failed to save resume to database"))

\* C3: when the extractor fails after a successful upload, the run issues the
\* delete of its blob before it returns, attempts no insert, returns the
\* extractor's error, and leaves no blob behind.
C3_RollbackOnExtractionFailure ==
    \A r \in Runs :
        (Done(r) /\ HasStep(pr[r].trace, "extract", "error")) =>
            /\ pr[r].trace[Len(pr[r].trace)].op = "remove"
            /\ ~ Issued(pr[r].trace, "insert")
            /\ pr[r].result = Failure(pr[r].extraction.error)
            /\ BlobsOf(r) = {}

\* the blob a run uploaded, as the store holds it
OwnBlob(r) == [name |-> pr[r].filePath, by |-> r]

\* trace[i] is followed, before position j, by no delete
NoRemoveBetween(trace, i, j) == \A k \in (i + 1)..(j - 1) : trace[k].op # "remove"

Rank(op) ==
    CASE op = "validate" -> 1 [] op = "getUser" -> 2 [] op = "upload" -> 3
      [] op = "extract" -> 4 [] op = "insert" -> 5 [] OTHER -> 0

\* C5: a run takes the steps validate, (identify,) upload, extract, insert in
\* this order, each one only after every earlier one succeeded; a failed upload
\* is the run's last step; a delete only follows a failed extract or insert;
\* and success is returned only right after a successful insert.
C5_StepOrder ==
    \A r \in Runs :
        LET t == pr[r].trace IN
        /\ \A j \in 1..Len(t) :
            /\ Rank(t[j].op) > 0 =>
                /\ Rank(t[j].op) = j
                /\ \A i \in 1..(j - 1) : t[i].out = "ok"
            /\ t[j].op = "remove" =>
                /\ j > 1
                /\ t[j - 1].op \in {"extract", "insert"}
                /\ t[j - 1].out = "error"
                /\ HasStep(t, "upload", "ok")
            /\ (t[j].op = "upload" /\ t[j].out # "ok") =>
                /\ j = Len(t)
                /\ Done(r) /\ ~ pr[r].result.success
        /\ (Done(r) /\ pr[r].result.success) =>
            /\ Len(t) = 5
            /\ t[5] = Step("insert", "ok")

\* one run ended at a failed upload and another one succeeded
C5_Witness ==
    \E r1, r2 \in Runs :
        /\ Done(r1) /\ HasStep(pr[r1].trace, "upload", "error")
        /\ Done(r2) /\ pr[r2].result.success

\* C6 (state part): every record references the blob that the run which
\* inserted it uploaded, and that blob is the one in the store.
C6_RecordsOwnBlob ==
    \A x \in resumes :
        /\ x.file_url = getPublicUrl(pr[x.by].filePath)
        /\ OwnBlob(x.by) \in storage

\* C6 (step part): an object leaves the store, or is replaced in it, only by
\* the compensating delete of the run that uploaded it.
C6_DeletesOwnBlob ==
    \A o \in storage \ storage' :
        /\ pr[o.by].pc \in {"cleanupExtract", "cleanupInsert"}
        /\ pr'[o.by].pc = "done"
        /\ o.name = pr[o.by].filePath

\* C6: in any interleaving of concurrent parseResume runs, runs generating the
\* same path included, no run's compensating delete removes a blob another run
\* uploaded, and every record references a blob uploaded by its own run.
C6_RunsIndependent == [] C6_RecordsOwnBlob /\ [][C6_DeletesOwnBlob]_vars

\* two runs generated the same path: the first deleted its blob again, the
\* second uploaded its own there and inserted its record
C6_Witness ==
    \E r1, r2 \in Runs :
        /\ r1 # r2
        /\ pr[r1].filePath # NoPath
        /\ pr[r1].filePath = pr[r2].filePath
        /\ HasStep(pr[r1].trace, "remove", "ok")
        /\ RecordsOf(r2) # {}

\* deleteResume was called by a logged-in user on a record of another user
NonOwnerCall(d) ==
    /\ dr[d].pc # "call"
    /\ dr[d].caller \in Users
    /\ dr[d].owner \in Users
    /\ dr[d].caller # dr[d].owner

\* C7 (as claimed): a non-owner's deleteResume returns 'Unauthorized', and the
\* record and its blob are still there.
C7_Unauthorized ==
    \A d \in Deleters :
        (NonOwnerCall(d) /\ dr[d].pc = "done") =>
            /\ dr[d].result = Failure(Msg("Unauthorized"))
            /\ \E x \in resumes : x.id = dr[d].resumeId

C7_RefusedAtLookup ==
    \A d \in Deleters :
        NonOwnerCall(d) =>
            /\ dr[d].pc = "done"
            /\ Len(dr[d].trace) = 1
            /\ dr[d].trace[1].op = "select"
            /\ \/ /\ dr[d].trace[1].out = "error"
                  /\ dr[d].result = Failure(Msg("Resume not found"))
               \/ /\ dr[d].trace[1].out = "throw"
                  /\ \E thrown \in Thrown :
                        dr[d].result = Failure(Caught(thrown, "Delete failed"))

C7_NoSideEffects ==
    \A d \in Deleters :
        (dr[d].pc = "call" /\ NonOwnerCall(d)') =>
            /\ UNCHANGED <<storage, resumes>>
            /\ \E x \in resumes' : x.id = dr'[d].resumeId /\ x.user_id = dr'[d].owner

\* C7 (amended): a non-owner's deleteResume fails at the lookup, which the
\* row-level policy answers as for a record that does not exist ('Resume not
\* found', or the message of what the lookup threw); it issues no delete, and
\* the record and the blob store are as they were.
C7_NonOwnerRefused == [] C7_RefusedAtLookup /\ [][C7_NoSideEffects]_vars

\* a logged-in user asked to delete another user's record and was told
\* 'Resume not found' while the record exists
C7_Witness ==
    \E d \in Deleters :
        /\ NonOwnerCall(d)
        /\ dr[d].result = Failure(Msg("Resume not found"))
        /\ \E x \in resumes : x.id = dr[d].resumeId /\ x.user_id # dr[d].caller

\* C8: the owner's deleteResume deletes the record before it issues the blob
\* delete, and once the record delete went through it returns success=true
\* whether the blob delete succeeds or fails.
C8_SuccessOnceRecordDeleted ==
    \A d \in Deleters :
        LET t == dr[d].trace IN
        /\ \A j \in 1..Len(t) :
            t[j].op = "remove" => (j > 1 /\ t[j - 1] = Step("delete", "ok"))
        /\ (dr[d].pc = "done" /\ HasStep(t, "delete", "ok")) => dr[d].result.success

\* validateResumeFile rejected the file of the request
Rejected(r) ==
    /\ pr[r].pc # "call"
    /\ pr[r].file # NoFile
    /\ ~ validateResumeFile(pr[r].file).valid

C9_ReturnsValidationError ==
    \A r \in Runs :
        Rejected(r) =>
            /\ Done(r)
            /\ pr[r].result = Failure(validateResumeFile(pr[r].file).error)
            /\ pr[r].trace = <<Step("validate", "error")>>
            /\ pr[r].caller = None /\ pr[r].user = None
            /\ BlobsOf(r) = {} /\ RecordsOf(r) = {}

C9_RejectionChangesNothing ==
    \A r \in Runs : (pr[r].pc = "call" /\ Rejected(r)') => UNCHANGED <<storage, resumes>>

\* C9: a file that validateResumeFile rejects makes parseResume return the
\* validation error at once: no identity lookup, upload, extraction or insert
\* is made, and blob store and datastore stay as they are.
C9_NoIOAfterRejection == [] C9_ReturnsValidationError /\ [][C9_RejectionChangesNothing]_vars

\* a request with a rejected file has returned
C9_Witness ==
    \E r \in Runs :
        /\ Rejected(r) /\ Done(r)
        /\ pr[r].result.error = Msg("File is empty. Please upload a valid resume file.")

\* the identity provider reported no user, or an error
Unidentified(r) == HasStep(pr[r].trace, "getUser", "error")

C10_ReturnsNotLoggedIn ==
    \A r \in Runs :
        Unidentified(r) =>
            /\ Done(r)
            /\ pr[r].result = Failure(Msg("You must be logged in to upload a resume"))
            /\ pr[r].trace = <<Step("validate", "ok"), Step("getUser", "error")>>
            /\ BlobsOf(r) = {} /\ RecordsOf(r) = {}

C10_LookupChangesNothing ==
    \A r \in Runs : (pr[r].pc = "getUser" /\ Unidentified(r)') => UNCHANGED <<storage, resumes>>

\* C10: when the identity provider reports no current user, or an error,
\* parseResume fails as not logged in and makes no upload, extraction or
\* insert: blob store and datastore stay as they are.
C10_NoIOWhenUnidentified == [] C10_ReturnsNotLoggedIn /\ [][C10_LookupChangesNothing]_vars

\* a request of a logged-in user met an identity provider that answered with
\* an error, and one without a session was turned away
C10_Witness ==
    \E r1, r2 \in Runs :
        /\ Unidentified(r1) /\ pr[r1].caller \in Users
        /\ Unidentified(r2) /\ pr[r2].caller = None

\* deleteResume was called with an id that names no record
MissingCall(d) == dr[d].pc # "call" /\ dr[d].owner = None

C11_ReturnsNotFound ==
    \A d \in Deleters :
        MissingCall(d) =>
            /\ dr[d].pc = "done"
            /\ Len(dr[d].trace) = 1
            /\ dr[d].trace[1].op = "select"
            /\ dr[d].trace[1].out # "throw" => dr[d].result = Failure(Msg("Resume not found"))
            /\ ~ dr[d].result.success

C11_MissingChangesNothing ==
    \A d \in Deleters :
        (dr[d].pc = "call" /\ MissingCall(d)') => UNCHANGED <<storage, resumes>>

\* C11: deleteResume on an id that names no record ends at the lookup: when
\* the lookup is answered the result is the failure 'Resume not found' (when
\* it throws, a failure all the same), no delete is issued, and datastore and
\* blob store stay as they are.
C11_NotFound == [] C11_ReturnsNotFound /\ [][C11_MissingChangesNothing]_vars

\* a delete of an id without a record was answered 'Resume not found' while
\* records and blobs of other ids exist
C11_Witness ==
    \E d \in Deleters :
        /\ MissingCall(d)
        /\ dr[d].result = Failure(Msg("Resume not found"))
        /\ resumes # {} /\ storage # {}

\* a step of the trace did not go through
Faulted(trace) == \E i \in 1..Len(trace) : trace[i].out # "ok"

C14_RedirectPassesThrough ==
    \A r \in Runs : pr[r].caught.digest = "NEXT_REDIRECT" => pr[r].pc = "raised"

\* the run ended at a failed insert, or in the catch of lines 129-135
EndedInternally(r) ==
    /\ Done(r)
    /\ \/ HasStep(pr[r].trace, "insert", "error")
       \/ \E op \in {"getUser", "insert", "remove"} : HasStep(pr[r].trace, op, "throw")

\* C15: two runs with the same inputs and the same course that ended at a
\* persistence failure or an unexpected exception return the same error,
\* whatever the datastore's error or the exception said.
C15_ErrorHidesInternals ==
    \A r1, r2 \in Runs :
        (/\ EndedInternally(r1) /\ EndedInternally(r2)
         /\ pr[r1].file = pr[r2].file
         /\ pr[r1].caller = pr[r2].caller
         /\ pr[r1].trace = pr[r2].trace) =>
            pr[r1].result.error = pr[r2].result.error

\* C12: once extractTextFromPDF has created a parser, destroy is called on it
\* before the function returns, on every exit: no call returns with its
\* parser left open.
C12_ParserReleased == (ex.pc = "done" /\ ex.format = "pdf") => ex.parser # "open"

\* the library of the call answered with a text, and no diagnostics of type error
Parsed == ex.pc = "done" /\ Len(ex.buffer) > 0 /\ ex.caught = NoThrown /\ ex.errors = <<>>

NoTextError ==
    IF ex.format = "pdf"
    THEN Msg("No text content found in PDF. The file might be image-based or corrupted.")
    ELSE Msg("No text content found in DOCX. The file might be empty or corrupted.")

\* C20: a Success of extractTextFromPDF / extractTextFromDOCX carries the
\* cleaned text of what the library returned, and that text is not empty and
\* not blank; when the library returned an empty or whitespace-only text the
\* outcome is the 'No text content found' Failure.
C20_SuccessHasText ==
    /\ (ex.pc = "done" /\ ex.result.success) =>
        /\ Parsed
        /\ Len(ex.result.text) > 0
        /\ \E i \in 1..Len(ex.result.text) : ~ IsWhitespace(ex.result.text[i])
        /\ ex.result.text = IF ex.format = "pdf" THEN cleanTextPDF(ex.text)
                                                 ELSE cleanTextDOCX(ex.text)
    /\ (Parsed /\ Len(Trim(ex.text)) = 0) => ex.result = NotExtracted(NoTextError)

\* a PDF call ended in the no-text Failure on a blank text, having released
\* its parser
C20_Witness ==
    /\ Parsed /\ ex.format = "pdf"
    /\ Len(ex.text) > 0 /\ Len(Trim(ex.text)) = 0
    /\ ex.result = NotExtracted(NoTextError)

EmptyFileError == Msg("File is empty. Please upload a valid resume file.")

\* C16: validateResumeFile returns the first failure among the emptiness, the
\* type and the size check, in this order, and is valid when all three pass;
\* so a file of length 0 gets the empty-file error whatever its declared type
\* and name.
C16_EmptinessFirst ==
    ap.fn = "validateResumeFile" =>
        LET checks == <<validateFileNotEmpty(ap.input), validateFileType(ap.input),
                        validateFileSize(ap.input)>>
        IN  /\ ap.input.size = 0 => ap.output = Invalid(EmptyFileError)
            /\ ap.output.valid <=> \A i \in 1..3 : checks[i].valid
            /\ ~ ap.output.valid =>
                    \E i \in 1..3 : /\ ap.output = checks[i]
                                     /\ ~ checks[i].valid
                                     /\ \A j \in 1..(i - 1) : checks[j].valid

\* an empty file with a type and a name that are not allowed got the
\* empty-file error
C16_Witness ==
    /\ ap.fn = "validateResumeFile"
    /\ ap.input.size = 0 /\ ap.input.type = "text/plain" /\ ap.input.name = NameTxt
    /\ ap.output = Invalid(EmptyFileError)

\* the size error, reporting a limit of 10
IsSizeError(result) ==
    /\ ~ result.valid
    /\ Len(result.error) = 5
    /\ result.error[1] = "File size ("
    /\ result.error[3] = "/100 MB) exceeds the maximum allowed size of "
    /\ result.error[4] = "10"
    /\ result.error[5] = "MB."

\* C17 (as claimed): validateResumeFile answers every file longer than
\* 10,485,760 bytes with the size error, and no file of exactly that length.
C17_SizeErrorForAll ==
    ap.fn = "validateResumeFile" =>
        /\ ap.input.size > 10485760 => IsSizeError(ap.output)
        /\ ap.input.size = 10485760 => ~ IsSizeError(ap.output)

\* C17 (amended): validateResumeFile rejects every file longer than
\* 10,485,760 bytes, with the size error (reporting the limit 10) when the
\* type check passes and with the type error otherwise; validateFileSize
\* gives the size error exactly to the files longer than 10,485,760 bytes, so
\* a file of exactly that length is not rejected for its size.
C17_SizeLimit ==
    /\ ap.fn = "validateResumeFile" =>
        /\ ap.input.size > 10485760 =>
            /\ ~ ap.output.valid
            /\ validateFileType(ap.input).valid => IsSizeError(ap.output)
            /\ ~ validateFileType(ap.input).valid => ap.output = validateFileType(ap.input)
        /\ (ap.input.size > 0 /\ ap.input.size <= 10485760) =>
            ap.output = validateFileType(ap.input)
    /\ ap.fn = "validateFileSize" =>
        /\ ap.input.size > 10485760 <=> IsSizeError(ap.output)
        /\ ap.input.size <= 10485760 <=> ap.output = Valid

\* a PDF of 10,485,761 bytes got the size error
C17_Witness ==
    /\ ap.fn = "validateResumeFile"
    /\ ap.input.type = PDF_MIME /\ ap.input.name = NamePdf
    /\ ap.input.size = 10485761
    /\ IsSizeError(ap.output)

\* C18: validateFileType accepts a file exactly when its declared type and the
\* extension of its name belong to one and the same allowed pair.
C18_SamePair ==
    ap.fn = "validateFileType" =>
        (ap.output.valid <=>
            \/ /\ ap.input.type = PDF_MIME
               /\ EndsWith(ToLowerCase(ap.input.name), <<".", "p", "d", "f">>)
            \/ /\ ap.input.type = DOCX_MIME
               /\ EndsWith(ToLowerCase(ap.input.name), <<".", "d", "o", "c", "x">>))

\* C19: cleanText is idempotent on both paths: applied to its own output it
\* returns that output.
C19_Idempotent ==
    ap.fn \in {"cleanTextPDF again", "cleanTextDOCX again"} => ap.output = ap.input

\* C21: a PDF extraction of a non-empty buffer that does not start with
\* '%PDF-' ends in the malformed-file Failure ('Invalid PDF file ...'), never
\* in another failure and never in a Success.
C21_MagicNumberRejects ==
    (ex.pc = "done" /\ ex.format = "pdf" /\ Len(ex.buffer) > 0 /\ ~ isValidPDFBuffer(ex.buffer)) =>
        ex.result =
            NotExtracted(Msg("Invalid PDF file. The file may be corrupted or not a valid PDF."))

\* C22: on every buffer shorter than five bytes both magic-number checks
\* return false.
C22_ShortIsUnknown ==
    (ap.fn \in {"isValidPDFBuffer", "isValidDOCXBuffer"} /\ Len(ap.input) < 5) =>
        ap.output = FALSE

\* C23: the title a record is stored with is the title the form carried when
\* that is not empty; otherwise it is made of the file name: without its
\* trailing .pdf / .docx, every '_' and '-' a space, and of each word between
\* spaces the first letter in upper case and the others in lower case; and it
\* is 'Untitled Resume' when nothing is left.  john_doe_resume_2024.pdf gives
\* 'John Doe Resume 2024'.
C23_Stem(name) ==
    IF Len(name) >= 4 /\ ToLowerCase(SubSeq(name, Len(name) - 3, Len(name))) = <<".", "p", "d", "f">>
    THEN SubSeq(name, 1, Len(name) - 4)
    ELSE IF Len(name) >= 5
            /\ ToLowerCase(SubSeq(name, Len(name) - 4, Len(name))) = <<".", "d", "o", "c", "x">>
    THEN SubSeq(name, 1, Len(name) - 5)
    ELSE name
C23_Spaced(s, i) == s[i] \in {"_", "-", " "}
C23_Cased(s) ==
    [i \in 1..Len(s) |->
        IF C23_Spaced(s, i) THEN " "
        ELSE IF i = 1 \/ C23_Spaced(s, i - 1) THEN ToUpperCase(<<s[i]>>)[1]
        ELSE ToLowerCase(<<s[i]>>)[1]]
C23_Derived(name) ==
    IF Len(C23_Stem(name)) = 0 THEN UntitledResume ELSE C23_Cased(C23_Stem(name))
C23_StoredTitle ==
    /\ \A x \in resumes :
            x.title = IF pr[x.by].title # <<>> THEN pr[x.by].title
                      ELSE C23_Derived(pr[x.by].file.name)
    /\ \A x \in resumes :
            (pr[x.by].title = <<>> /\ pr[x.by].file.name = NameJohn) =>
                x.title = <<"J", "o", "h", "n", " ", "D", "o", "e", " ", "R", "e", "s", "u", "m", "e",
                            " ", "2", "0", "2", "4">>
    /\ \A r \in Runs :
            (pr[r].pc = "done" /\ pr[r].result.success) =>
                \E x \in resumes : x.by = r /\ pr[r].result.data.title = x.title

C23_Witness ==
    \E x \in resumes :
        /\ pr[x.by].pc = "done" /\ pr[x.by].result.success
        /\ pr[x.by].title = <<>> /\ pr[x.by].file.name = NameJohn
        /\ x.title = <<"J", "o", "h", "n", " ", "D", "o", "e", " ", "R", "e", "s", "u", "m", "e",
                       " ", "2", "0", "2", "4">>

\* C24: however a cleanupOrphanedFiles call interleaves with a parseResume
\* request of the same user, every stored record names a blob that is in the
\* store: the cleanup deletes no blob whose record is still to be inserted.
C24_NoDanglingRecord ==
    \A x \in resumes : \E o \in storage : o.name = x.file_url.path

\* C25: the file_type of every record parseResume creates names the extractor
\* that produced its text: 'pdf' exactly when extractTextFromFile handed the
\* buffer to extractTextFromPDF, 'docx' exactly when to extractTextFromDOCX,
\* for every declared type and file name that validateResumeFile accepts.
C25_TagNamesExtractor ==
    \A x \in resumes :
        /\ x.file_type = "pdf" <=> pr[x.by].extractor = "pdf"
        /\ x.file_type = "docx" <=> pr[x.by].extractor = "docx"

\* C26: when the datastore answers the delete of deleteResume with an error,
\* the call returns the failure 'Failed to delete resume' and issues no delete
\* of the blob, so the record and its blob are both still there; and whenever
\* deleteResume deletes a blob, no record names that blob any more.
C26_Did(d, step) == \E i \in 1..Len(dr[d].trace) : dr[d].trace[i] = step
C26_ErrorStops ==
    \A d \in Deleters :
        C26_Did(d, Step("delete", "error")) =>
            /\ dr[d].pc = "done"
            /\ dr[d].result = Failure(Msg("Failed to delete resume"))
            /\ \A out \in {"ok", "error", "throw"} : ~ C26_Did(d, Step("remove", out))
C26_ErrorKeepsBoth ==
    \A d \in Deleters :
        (dr[d].pc = "delete" /\ dr'[d].trace = Append(dr[d].trace, Step("delete", "error"))) =>
            /\ UNCHANGED <<storage, resumes>>
            /\ \E x \in resumes' :
                    /\ x.id = dr[d].resumeId
                    /\ \E o \in storage' : o.name = x.file_url.path
C26_BlobAfterRecord ==
    \A d \in Deleters :
        (dr'[d] # dr[d] /\ storage' # storage) =>
            /\ C26_Did(d, Step("delete", "ok"))
            /\ \A o \in storage \ storage' :
                    ~ \E x \in resumes : x.file_url.path = o.name
C26_DeleteErrorStops ==
    [] C26_ErrorStops /\ [][C26_ErrorKeepsBoth /\ C26_BlobAfterRecord]_vars

C26_Witness ==
    \E d \in Deleters :
        /\ dr[d].pc = "done"
        /\ C26_Did(d, Step("delete", "error"))
        /\ dr[d].result = Failure(Msg("Failed to delete resume"))
        /\ \E x \in resumes :
                /\ x.id = dr[d].resumeId
                /\ \E o \in storage : o.name = x.file_url.path

\* C27: every blob parseResume writes is at <owner id>/<timestamp>_<name>
\* where <name> is the file name with every character outside [a-zA-Z0-9._-]
\* (the '/' among them) replaced by '_': the path has one '/', its folder is
\* the id of the user the request acts for, and of no other user.
C27_Allowed ==
    {LowerLetters[i] : i \in 1..26} \cup {UpperLetters[i] : i \in 1..26}
        \cup {Digits[i] : i \in 1..10} \cup {".", "_", "-"}
C27_Sanitized(name, safe) ==
    /\ Len(safe) = Len(name)
    /\ \A i \in 1..Len(name) :
            /\ safe[i] \in C27_Allowed
            /\ safe[i] = IF name[i] \in C27_Allowed THEN name[i] ELSE "_"
C27_PathOf(o) == PathString(o.name)
C27_ScopedPath ==
    \A o \in storage :
        LET path == C27_PathOf(o)
            owner == UserId[pr[o.by].user]
            rest == SubSeq(path, Len(owner) + 2, Len(path))
        IN  /\ pr[o.by].user \in Users
            /\ SubSeq(path, 1, Len(owner) + 1) = owner \o <<"/">>
            /\ \A i \in 1..Len(rest) : rest[i] # "/"
            /\ \E k \in 1..Len(rest) :
                    /\ rest[k] = "_"
                    /\ \A i \in 1..(k - 1) : rest[i] \in {Digits[j] : j \in 1..10} \cup {"-", "T", "Z"}
                    /\ C27_Sanitized(pr[o.by].file.name, SubSeq(rest, k + 1, Len(rest)))
            /\ \A u \in Users \ {pr[o.by].user} : FirstFolder(path) # UserId[u]

C27_Witness ==
    \E o \in storage :
        /\ pr[o.by].file.name = NameUnsafe
        /\ pr[o.by].user = "userA"
        /\ FirstFolder(C27_PathOf(o)) = UserId["userA"]
        /\ o.name[3] = <<".", ".", "_", "b", "_", "c", ".", "p", "d", "f">>

\* C28: whatever the text, what cleanText returns (of the PDF parser and of
\* the DOCX parser) has no two horizontal whitespace characters (space, tab)
\* in a row, no three newlines in a row, and no line that starts or ends with
\* whitespace.
C28_Blank(c) == c \in {" ", "\t"}
C28_NoBlankRun(s) == \A i \in 1..(Len(s) - 1) : ~ (C28_Blank(s[i]) /\ C28_Blank(s[i + 1]))
C28_NoNewlineRun(s) ==
    \A i \in 1..(Len(s) - 2) : ~ (s[i] = "\n" /\ s[i + 1] = "\n" /\ s[i + 2] = "\n")
C28_LinesTrimmed(s) ==
    /\ Len(s) > 0 => (~ C28_Blank(s[1]) /\ ~ C28_Blank(s[Len(s)]))
    /\ \A i \in 1..(Len(s) - 1) :
            /\ ~ (C28_Blank(s[i]) /\ s[i + 1] = "\n")
            /\ ~ (s[i] = "\n" /\ C28_Blank(s[i + 1]))
C28_Canonical ==
    ap.fn \in {"cleanTextPDF", "cleanTextDOCX"} =>
        /\ C28_NoBlankRun(ap.output)
        /\ C28_NoNewlineRun(ap.output)
        /\ C28_LinesTrimmed(ap.output)

\* C29: however concurrent deduct_credits calls of a user interleave, no
\* balance is ever negative; a call returns TRUE only in a step that lowers
\* the caller's balance by exactly its amount; and a call that cannot deduct
\* for want of credits returns FALSE, without raising an error, and leaves
\* the balance as it is.
C29_NeverNegative == \A u \in Users : profiles[u] >= 0
C29_NeverRaises == \A c \in Callers : dc[c].result # "raised"
C29_TrueDeducts ==
    \A c \in Callers :
        (dc[c].result # "TRUE" /\ dc'[c].result = "TRUE") =>
            /\ profiles'[dc'[c].caller] = profiles[dc'[c].caller] - dc'[c].amount
            /\ \A u \in Users \ {dc'[c].caller} : profiles'[u] = profiles[u]
C29_FalseKeeps ==
    \A c \in Callers :
        (dc[c].result # dc'[c].result /\ dc'[c].result # "TRUE") => profiles' = profiles
C29_SafeDeduction ==
    /\ [] (C29_NeverNegative /\ C29_NeverRaises)
    /\ [][C29_TrueDeducts /\ C29_FalseKeeps]_vars

\* C30: the textPreview of a successful parseResume is the first 500
\* characters of the text the record is stored with (all of the text when it
\* has fewer), followed by '...': it is never longer than 503 characters.
C30_PreviewOf(text, preview) ==
    \E n \in 0..500 :
        /\ n = Len(text) \/ (n = 500 /\ Len(text) > 500)
        /\ Len(preview) = n + 3
        /\ \A i \in 1..n : preview[i] = text[i]
        /\ \A i \in (n + 1)..(n + 3) : preview[i] = "."
C30_BoundedPreview ==
    \A r \in Runs :
        (pr[r].pc = "done" /\ pr[r].result.success) =>
            /\ Len(pr[r].result.data.textPreview) <= 503
            /\ \E x \in resumes :
                    /\ x.by = r /\ x.id = pr[r].result.data.resumeId
                    /\ C30_PreviewOf(x.raw_text, pr[r].result.data.textPreview)

C30_Witness ==
    \E r \in Runs :
        /\ pr[r].pc = "done" /\ pr[r].result.success
        /\ Len(pr[r].extraction.text) > 500
        /\ Len(pr[r].result.data.textPreview) = 503

====
